---------------------------- MODULE Spec2Model ----------------------------
(***************************************************************************)
(* A model of libbuffer: the Levenshtein diff engine (diff.h) and the      *)
(* observable Buffer (second, current variant of buffer.h) with its        *)
(* owner thread, detached worker threads and subscribers.                  *)
(***************************************************************************)
EXTENDS Integers, Sequences, FiniteSets, TLC

(***************************************************************************)
(* Bounds of the model.                                                    *)
(***************************************************************************)
\* longest sequence handed to diff in the diff-engine specification
MaxLen == 3

\* element values of the sequences handed to diff
Elems == {1, 2, 3}

\* calls of setCollection the owner thread makes, per specification
MaxSubmits == 3
MaxReaderSubmits == 2
MaxThreadsSubmits == 2
MaxNotifySubmits == 2

\* calls made from a thread that is not the owner
MaxOtherCalls == 1

\* calls of setCollection where a second thread registers subscribers, and
\* where a subscriber calls back into the buffer
MaxConcurrentSubmits == 2
MaxReentrantSubmits == 2

\* INT_MAX, the "no such predecessor" cost of the backtrack loop
IntMax == 2147483647

RECURSIVE SeqsUpTo(_)
\* all sequences over Elems of length at most n
SeqsUpTo(n) ==
  IF n = 0 THEN {<<>>}
  ELSE LET shorter == SeqsUpTo(n - 1)
       IN  shorter \cup {Append(s, e) : s \in {t \in shorter : Len(t) = n - 1}, e \in Elems}

\* the demo program's two collections (main.cpp)
DemoOld == <<1, 5, 3, 2>>
DemoNew == <<1, 3, 2, 6, 6>>

(***************************************************************************)
(* diff.h: the diff engine.                                                *)
(***************************************************************************)
\* the std::function<bool (T, T)> values a caller may pass: "null" is the
\* default argument 0, "parity" is a caller's predicate (equal modulo 2)
CompareFns == {"null", "parity"}

\* the test of the populate loop: (compare && compare(a, b)) || (!compare && a == b)
Equal(compare, a, b) ==
  IF compare # "null" THEN (a % 2) = (b % 2) ELSE a = b

Min(a, b) == IF b < a THEN b ELSE a

\* table(m+1, vector<int>(n+1, 0)) with the two seeding loops applied
SeedTable(m, n) ==
  [i \in 0..m |-> [j \in 0..n |-> IF j = 0 THEN i ELSE IF i = 0 THEN j ELSE 0]]

\* CellValue with the substitution predecessor left out of the minimum
CellValueNoSubstitution(table, eq, i, j) ==
  IF eq THEN table[i-1][j-1]
  ELSE Min(table[i-1][j], table[i][j-1]) + 1

\* the value stored in table[i][j] by the body of the populate loop
CellValue(table, eq, i, j) ==
  IF eq THEN table[i-1][j-1]
  ELSE LET insertion == table[i][j-1]
           deletion == table[i-1][j]
           substitution == table[i-1][j-1]
       IN  Min(deletion, Min(insertion, substitution)) + 1

RECURSIVE Populate(_, _, _, _, _, _)
\* for (j = 1; j < n+1; j++) for (i = 1; i < m+1; i++) table[i][j] = ...
Populate(x, y, compare, table, i, j) ==
  IF j > Len(y) THEN table
  ELSE IF i > Len(x) THEN Populate(x, y, compare, table, 1, j + 1)
  ELSE Populate(x, y, compare,
                [table EXCEPT ![i][j] =
                   CellValue(table, Equal(compare, x[i], y[j]), i, j)],
                i + 1, j)

\* the memoization table of diff once populated
CostTable(x, y, compare) ==
  Populate(x, y, compare, SeedTable(Len(x), Len(y)), 1, 1)

\* IsMatch comparing against the cost one below the current cell's
IsMatchOffByOne(diagonal, current) == diagonal + 1 = current

\* the third branch's test of the backtrack loop: the step is taken as a match
IsMatch(diagonal, current) == diagonal = current

RECURSIVE BacktrackDeleteAtI(_, _, _, _, _, _)
\* Backtrack with the Delete emitted at index i, not i - 1
BacktrackDeleteAtI(x, y, table, i, j, list) ==
  IF ~(i > 0 \/ j > 0) THEN list
  ELSE IF i < 0 \/ j < 0 THEN list
  ELSE
    LET insertion == IF j > 0 THEN table[i][j-1] ELSE IntMax
        deletion == IF i > 0 THEN table[i-1][j] ELSE IntMax
        diagonal == IF i > 0 /\ j > 0 THEN table[i-1][j-1] ELSE IntMax
    IN  IF insertion < diagonal /\ insertion < deletion
        THEN BacktrackDeleteAtI(x, y, table, i, j - 1,
               Append(list, [type |-> "INSERT", index |-> i, value |-> y[j]]))
        ELSE IF deletion < diagonal /\ deletion < insertion
        THEN BacktrackDeleteAtI(x, y, table, i - 1, j,
               Append(list, [type |-> "DELETE", index |-> i, value |-> x[i]]))
        ELSE IF diagonal = table[i][j]
        THEN BacktrackDeleteAtI(x, y, table, i - 1, j - 1, list)
        ELSE BacktrackDeleteAtI(x, y, table, i - 1, j - 1,
               Append(list, [type |-> "SUBSTITUTE", index |-> i - 1, value |-> y[j]]))

RECURSIVE Backtrack(_, _, _, _, _, _)
\* while (i > 0 || j > 0) { ... }, returning list
Backtrack(x, y, table, i, j, list) ==
  IF ~(i > 0 \/ j > 0) THEN list
  ELSE IF i < 0 \/ j < 0 THEN list
  ELSE
    LET insertion == IF j > 0 THEN table[i][j-1] ELSE IntMax
        deletion == IF i > 0 THEN table[i-1][j] ELSE IntMax
        diagonal == IF i > 0 /\ j > 0 THEN table[i-1][j-1] ELSE IntMax
    IN  IF insertion < diagonal /\ insertion < deletion
        THEN Backtrack(x, y, table, i, j - 1,
               Append(list, [type |-> "INSERT", index |-> i, value |-> y[j]]))
        ELSE IF deletion < diagonal /\ deletion < insertion
        THEN Backtrack(x, y, table, i - 1, j,
               Append(list, [type |-> "DELETE", index |-> i - 1, value |-> x[i]]))
        ELSE IF IsMatch(diagonal, table[i][j])
        THEN Backtrack(x, y, table, i - 1, j - 1, list)
        ELSE Backtrack(x, y, table, i - 1, j - 1,
               Append(list, [type |-> "SUBSTITUTE", index |-> i - 1, value |-> y[j]]))

\* diff(x, y, compare): the list of Diff records, in emission order
diff(x, y, compare) ==
  Backtrack(x, y, CostTable(x, y, compare), Len(x), Len(y), <<>>)

(***************************************************************************)
(* buffer.h: values of the Buffer model.                                   *)
(***************************************************************************)
\* the collections the owner thread submits
Collections == {<<>>, <<1>>, <<2, 1>>}

\* the collections submitted where the callbacks are observed
NotifyCollections == {<<>>, <<1>>, <<3>>, <<2, 1>>}

\* what a copy of a vector holds when the vector was freed during the copy
Torn == <<0>>

\* the subscribers a client may register
Subscribers == {"s1", "s2"}

\* the values of sort_fnc: "null" (unset) or a caller's ascending sort
SortFns == {"null", "ascending"}

RECURSIVE InsertSorted(_, _)
InsertSorted(s, e) ==
  IF s = <<>> THEN <<e>>
  ELSE IF e <= Head(s) THEN <<e>> \o s
  ELSE <<Head(s)>> \o InsertSorted(Tail(s), e)

RECURSIVE SortAscending(_)
\* the caller's sort function: v in ascending order
SortAscending(v) ==
  IF v = <<>> THEN <<>> ELSE InsertSorted(SortAscending(Tail(v)), Head(v))

\* Transform with the sort function never applied
TransformIdentity(sort, v) == v

\* sort_fnc ? sort_fnc(v) : v
Transform(sort, v) == IF sort # "null" THEN SortAscending(v) ELSE v

\* thread 0 is the owner thread (init_thread_id_), 1..MaxWorkers the detached workers
Owner == 0
Workers == {1, 2}
Threads == {Owner} \cup Workers
NoThread == -1

(***************************************************************************)
(* State.                                                                  *)
(***************************************************************************)
VARIABLES
  dx,        \* diff-engine specification: the argument x
  dy,        \* the argument y
  dcompare,  \* the argument compare
  dlist,     \* the returned list
  dpc,       \* "call" before diff has run, "returned" after, "unused" otherwise
  back_buffer_,               \* the pending snapshot
  front_buffer_,              \* the published snapshot
  subscribers_,               \* the registered subscribers, a sequence
  buffer_lock_,               \* the thread holding the mutex, or NoThread
  compare_fnc_,
  sort_fnc,
  is_asynchronous_,
  is_computing_changes_,
  should_recompute_changes_,
  terminated,  \* "running", "assert" (failed assertion) or "crash"
  pc,          \* the position of each thread
  new_collection,  \* per thread, computeChanges' local new_collection
  diffs,           \* per thread, computeChanges' local diffs
  next_diff,       \* per thread, the index in diffs of the operation to notify next
  iterating,       \* per thread, the subscribers the running range-for spans
  raced,           \* per thread, back_buffer_ was replaced while the thread copied it
  origin,          \* per worker, the number of the setCollection call that started it
  got,             \* the value returned by the owner's last getCollection
  got_raced,       \* front_buffer_ was replaced while getCollection copied it
  ocall,           \* the last call made from a thread that is not the owner
  ocalls,          \* the number of calls made from such a thread
  nsubmit,         \* history: setCollection calls made so far
  reads,           \* history: per call number, the recomputes that read its collection
  spawn_read,      \* history: per call number, what the first run of its worker read
  spawn_done,      \* history: per call number, nsubmit when that first run completed
  last_completed,  \* history: new_collection of the last completed recompute
  notified,        \* history: the callbacks of the current or last recompute
  loop_raced,      \* history: subscribers_ was modified during a loop of that recompute
  first_registered,  \* history: subscribers in order of their first registration
  registered_twice,  \* history: subscribers registered while already registered
  registration_order, \* history: subscribers in order of the registration that
                      \* last put them on the list
  last_call          \* history: the owner thread's last setCollection or
                     \* unregisterSubscriber call, its argument and the
                     \* subscriber list it found

dvars == <<dx, dy, dcompare, dlist, dpc>>

fields == <<back_buffer_, front_buffer_, subscribers_, buffer_lock_, compare_fnc_,
            sort_fnc, is_asynchronous_, is_computing_changes_,
            should_recompute_changes_>>

locals == <<new_collection, diffs, next_diff, iterating, raced, origin>>

history == <<nsubmit, reads, spawn_read, spawn_done, last_completed, notified,
             loop_raced, first_registered, registered_twice, registration_order,
             last_call>>

vars == <<dvars, fields, terminated, pc, locals, got, got_raced, ocall, ocalls,
          history>>

\* the state after Buffer() has run on the owner thread
InitBuffer ==
  /\ back_buffer_ = <<>>
  /\ front_buffer_ = <<>>
  /\ subscribers_ = <<>>
  /\ buffer_lock_ = NoThread
  /\ compare_fnc_ = "null"
  /\ sort_fnc = "null"
  /\ is_asynchronous_ = FALSE
  /\ is_computing_changes_ = FALSE
  /\ should_recompute_changes_ = FALSE
  /\ terminated = "running"
  /\ pc = [t \in Threads |-> IF t = Owner THEN "idle" ELSE "none"]
  /\ new_collection = [t \in Threads |-> <<>>]
  /\ diffs = [t \in Threads |-> <<>>]
  /\ next_diff = [t \in Threads |-> 0]
  /\ iterating = [t \in Threads |-> <<>>]
  /\ raced = [t \in Threads |-> FALSE]
  /\ origin = [t \in Threads |-> 0]
  /\ got = <<>>
  /\ got_raced = FALSE
  /\ ocall = "none"
  /\ ocalls = 0
  /\ nsubmit = 0
  /\ reads = [n \in 0..MaxSubmits |-> 0]
  /\ spawn_read = [n \in 1..MaxSubmits |-> -1]
  /\ spawn_done = [n \in 1..MaxSubmits |-> -1]
  /\ last_completed = <<>>
  /\ notified = <<>>
  /\ loop_raced = FALSE
  /\ first_registered = <<>>
  /\ registered_twice = {}
  /\ registration_order = <<>>
  /\ last_call = [name |-> "none", arg |-> <<>>, before |-> <<>>]

(***************************************************************************)
(* The diff-engine specification: diff applied to every bounded input.     *)
(***************************************************************************)
DiffInputs ==
  (SeqsUpTo(MaxLen) \X SeqsUpTo(MaxLen)) \cup {<<DemoOld, DemoNew>>}

InitDiff ==
  /\ \E p \in DiffInputs : dx = p[1] /\ dy = p[2]
  /\ dcompare \in CompareFns
  /\ dlist = <<>>
  /\ dpc = "call"
  /\ InitBuffer

\* the call diff(dx, dy, dcompare) runs and returns
DiffCall ==
  /\ dpc = "call"
  /\ dlist' = diff(dx, dy, dcompare)
  /\ dpc' = "returned"
  /\ UNCHANGED <<dx, dy, dcompare>>
  /\ UNCHANGED <<fields, terminated, pc, locals, got, got_raced, ocall, ocalls,
                 history>>

NextDiff == DiffCall

SpecDiff == InitDiff /\ [][NextDiff]_vars

(***************************************************************************)
(* The Buffer specification: the owner thread and its workers.             *)
(***************************************************************************)
Init ==
  /\ dx = <<>> /\ dy = <<>> /\ dcompare = "null" /\ dlist = <<>> /\ dpc = "unused"
  /\ InitBuffer

Running == terminated = "running"

\* a thread that did not construct the buffer
Other == 3
Callers == {Owner, Other}

\* caller can make a call: the owner thread is between two calls, another
\* thread always is
CanCall(caller) == Running /\ (caller = Owner => pc[Owner] = "idle")

\* the record of a call name made by caller
Called(caller, name) == IF caller = Owner THEN ocall ELSE name

\* SetCollection with the assertion placed after the replacement of back_buffer_
SetCollectionAssertLate(caller, collection) ==
  /\ CanCall(caller)
  /\ back_buffer_' = collection
  /\ raced' = [t \in Threads |-> raced[t] \/ pc[t] = "copy"]
  /\ IF caller # Owner
     THEN /\ terminated' = "assert"
          /\ ocall' = "setCollection"
          /\ UNCHANGED <<nsubmit, pc, last_call>>
     ELSE /\ nsubmit' = nsubmit + 1
          /\ pc' = [pc EXCEPT ![Owner] = "refresh"]
          /\ last_call' = [name |-> "setCollection", arg |-> collection,
                           before |-> <<>>]
          /\ UNCHANGED <<terminated, ocall>>
  /\ UNCHANGED <<dvars, front_buffer_, subscribers_, buffer_lock_, compare_fnc_,
                 sort_fnc, is_asynchronous_, is_computing_changes_,
                 should_recompute_changes_, new_collection, diffs, next_diff,
                 iterating, origin, got, got_raced, reads, spawn_read, spawn_done,
                 last_completed, notified, loop_raced, first_registered,
                 registered_twice, registration_order>>

\* SetCollection replacing back_buffer_ under buffer_lock_
SetCollectionLocked(caller, collection) ==
  /\ CanCall(caller)
  /\ IF caller # Owner
     THEN /\ terminated' = "assert"
          /\ ocall' = "setCollection"
          /\ UNCHANGED <<back_buffer_, raced, nsubmit, pc, last_call>>
     ELSE /\ buffer_lock_ = NoThread
          /\ back_buffer_' = collection
          /\ raced' = [t \in Threads |-> raced[t] \/ pc[t] = "copy"]
          /\ nsubmit' = nsubmit + 1
          /\ pc' = [pc EXCEPT ![Owner] = "refresh"]
          /\ last_call' = [name |-> "setCollection", arg |-> collection,
                           before |-> <<>>]
          /\ UNCHANGED <<terminated, ocall>>
  /\ UNCHANGED <<dvars, front_buffer_, subscribers_, buffer_lock_, compare_fnc_,
                 sort_fnc, is_asynchronous_, is_computing_changes_,
                 should_recompute_changes_, new_collection, diffs, next_diff,
                 iterating, origin, got, got_raced, reads, spawn_read, spawn_done,
                 last_completed, notified, loop_raced, first_registered,
                 registered_twice, registration_order>>

\* setCollection(collection) called on thread caller: the assertion
\* init_thread_id_ == get_id() fails off the owner thread; on it back_buffer_
\* is replaced (the vector it held is freed) and refresh() is next
SetCollection(caller, collection) ==
  /\ CanCall(caller)
  /\ IF caller # Owner
     THEN /\ terminated' = "assert"
          /\ ocall' = "setCollection"
          /\ UNCHANGED <<back_buffer_, raced, nsubmit, pc, last_call>>
     ELSE /\ back_buffer_' = collection
          /\ raced' = [t \in Threads |-> raced[t] \/ pc[t] = "copy"]
          /\ nsubmit' = nsubmit + 1
          /\ pc' = [pc EXCEPT ![Owner] = "refresh"]
          /\ last_call' = [name |-> "setCollection", arg |-> collection,
                           before |-> <<>>]
          /\ UNCHANGED <<terminated, ocall>>
  /\ UNCHANGED <<dvars, front_buffer_, subscribers_, buffer_lock_, compare_fnc_,
                 sort_fnc, is_asynchronous_, is_computing_changes_,
                 should_recompute_changes_, new_collection, diffs, next_diff,
                 iterating, origin, got, got_raced, reads, spawn_read, spawn_done,
                 last_completed, notified, loop_raced, first_registered,
                 registered_twice, registration_order>>

\* the worker slots no thread runs in
FreeWorkers == {w \in Workers : pc[w] = "none"}

\* refresh(): computeChanges inline, or the request flag when a recompute is
\* seen in flight, or a new detached thread running computeChanges
Refresh ==
  /\ Running
  /\ pc[Owner] = "refresh"
  /\ IF ~is_asynchronous_
     THEN /\ pc' = [pc EXCEPT ![Owner] = "lock"]
          /\ UNCHANGED origin
     ELSE IF is_computing_changes_
     THEN /\ pc' = [pc EXCEPT ![Owner] = "request"]
          /\ UNCHANGED origin
     ELSE /\ FreeWorkers # {}
          /\ LET w == CHOOSE v \in FreeWorkers : \A u \in FreeWorkers : v <= u
             IN  /\ pc' = [pc EXCEPT ![Owner] = "idle", ![w] = "lock"]
                 /\ origin' = [origin EXCEPT ![w] = nsubmit]
  /\ UNCHANGED <<dvars, fields, terminated, new_collection, diffs, next_diff,
                 iterating, raced, got, got_raced, ocall, history>>

\* should_recompute_changes_ = true; return;
RequestRecompute ==
  /\ Running
  /\ pc[Owner] = "request"
  /\ should_recompute_changes_' = TRUE
  /\ pc' = [pc EXCEPT ![Owner] = "idle"]
  /\ UNCHANGED <<dvars, back_buffer_, front_buffer_, subscribers_, buffer_lock_,
                 compare_fnc_, sort_fnc, is_asynchronous_, is_computing_changes_,
                 terminated, locals, got, got_raced, ocall, history>>

(***************************************************************************)
(* computeChanges(), run by thread t: the owner inline or a worker.        *)
(***************************************************************************)
\* Lock taking the mutex whether or not a thread holds it
LockNoWait(t) ==
  /\ Running
  /\ pc[t] = "lock"
  /\ buffer_lock_' = t
  /\ pc' = [pc EXCEPT ![t] = "set_computing"]
  /\ notified' = <<>>
  /\ loop_raced' = FALSE
  /\ UNCHANGED <<dvars, back_buffer_, front_buffer_, subscribers_, compare_fnc_,
                 sort_fnc, is_asynchronous_, is_computing_changes_,
                 should_recompute_changes_, terminated, locals, got, got_raced,
                 ocall, nsubmit, reads, spawn_read, spawn_done, last_completed,
                 first_registered, registered_twice, registration_order, last_call>>

\* buffer_lock_.lock()
Lock(t) ==
  /\ Running
  /\ pc[t] = "lock"
  /\ buffer_lock_ = NoThread
  /\ buffer_lock_' = t
  /\ pc' = [pc EXCEPT ![t] = "set_computing"]
  /\ notified' = <<>>
  /\ loop_raced' = FALSE
  /\ UNCHANGED <<dvars, back_buffer_, front_buffer_, subscribers_, compare_fnc_,
                 sort_fnc, is_asynchronous_, is_computing_changes_,
                 should_recompute_changes_, terminated, locals, got, got_raced,
                 ocall, nsubmit, reads, spawn_read, spawn_done, last_completed,
                 first_registered, registered_twice, registration_order, last_call>>

\* is_computing_changes_ = true;
SetComputing(t) ==
  /\ Running
  /\ pc[t] = "set_computing"
  /\ is_computing_changes_' = TRUE
  /\ pc' = [pc EXCEPT ![t] = "clear_request"]
  /\ UNCHANGED <<dvars, back_buffer_, front_buffer_, subscribers_, buffer_lock_,
                 compare_fnc_, sort_fnc, is_asynchronous_,
                 should_recompute_changes_, terminated, locals, got, got_raced,
                 ocall, history>>

\* if (should_recompute_changes_) should_recompute_changes_ = false;
ClearRequest(t) ==
  /\ Running
  /\ pc[t] = "clear_request"
  /\ should_recompute_changes_' = FALSE
  /\ pc' = [pc EXCEPT ![t] = "read"]
  /\ UNCHANGED <<dvars, back_buffer_, front_buffer_, subscribers_, buffer_lock_,
                 compare_fnc_, sort_fnc, is_asynchronous_, is_computing_changes_,
                 terminated, locals, got, got_raced, ocall, history>>

\* *back_buffer_ is dereferenced: the copy that follows reads the vector that
\* back_buffer_ points to now
ReadBackBuffer(t) ==
  /\ Running
  /\ pc[t] = "read"
  /\ new_collection' = [new_collection EXCEPT ![t] = back_buffer_]
  /\ raced' = [raced EXCEPT ![t] = FALSE]
  /\ reads' = [reads EXCEPT ![nsubmit] = @ + 1]
  /\ spawn_read' = IF origin[t] > 0
                   THEN [spawn_read EXCEPT ![origin[t]] = nsubmit]
                   ELSE spawn_read
  /\ pc' = [pc EXCEPT ![t] = "copy"]
  /\ UNCHANGED <<dvars, fields, terminated, diffs, next_diff, iterating, origin,
                 got, got_raced, ocall, nsubmit, spawn_done, last_completed,
                 notified, loop_raced, first_registered, registered_twice, registration_order, last_call>>

\* what the copy of the dereferenced vector can hold: the vector's elements,
\* or anything when setCollection freed the vector during the copy
CopiedValues(value, was_raced) ==
  IF was_raced THEN {value, Torn} ELSE {value}

\* new_collection = sort_fnc ? sort_fnc(copy of *back_buffer_) : copy;
\* diffs = diff(*front_buffer_, *new_collection); is_changed = diffs.size();
CopyAndDiff(t) ==
  /\ Running
  /\ pc[t] = "copy"
  /\ \E copy \in CopiedValues(new_collection[t], raced[t]) :
       LET candidate == Transform(sort_fnc, copy)
           list == diff(front_buffer_, candidate, "null")
       IN  /\ new_collection' = [new_collection EXCEPT ![t] = candidate]
           /\ diffs' = [diffs EXCEPT ![t] = list]
           /\ pc' = [pc EXCEPT ![t] = IF Len(list) # 0 THEN "will" ELSE "publish"]
  /\ raced' = [raced EXCEPT ![t] = FALSE]
  /\ UNCHANGED <<dvars, fields, terminated, next_diff, iterating, origin, got,
                 got_raced, ocall, history>>

\* the copy of a vector freed meanwhile faults
CopyFault(t) ==
  /\ Running
  /\ pc[t] = "copy"
  /\ raced[t]
  /\ terminated' = "crash"
  /\ UNCHANGED <<dvars, fields, pc, locals, got, got_raced, ocall, history>>

\* the callback a loop at position p makes on each subscriber
EventAt(p, t) ==
  IF p = "will_loop" THEN [event |-> "onBufferWillChange"]
  ELSE IF p = "did_loop" THEN [event |-> "onBufferDidChange"]
  ELSE [event |-> "onBufferChange", diff |-> diffs[t][next_diff[t]]]

\* AfterLoop leaving for the end once the per-operation loops are done
AfterLoopSkipsDid(p, t) ==
  IF p = "will_loop" THEN "publish"
  ELSE IF p = "did_loop" THEN "clear_computing"
  ELSE IF next_diff[t] < Len(diffs[t]) THEN "change" ELSE "clear_computing"

\* the position after the loop at position p
AfterLoop(p, t) ==
  IF p = "will_loop" THEN "publish"
  ELSE IF p = "did_loop" THEN "clear_computing"
  ELSE IF next_diff[t] < Len(diffs[t]) THEN "change" ELSE "did"

\* for (auto subscriber : *subscribers_): begin() and end() are taken
LoopBegin(t) ==
  /\ Running
  /\ pc[t] \in {"will", "change", "did"}
  /\ iterating' = [iterating EXCEPT ![t] = subscribers_]
  /\ pc' = [pc EXCEPT ![t] = IF pc[t] = "will" THEN "will_loop"
                             ELSE IF pc[t] = "did" THEN "did_loop"
                             ELSE "change_loop"]
  /\ UNCHANGED <<dvars, fields, terminated, new_collection, diffs, next_diff,
                 raced, origin, got, got_raced, ocall, history>>

\* subscribers_ was modified while thread t iterates over it
LoopRaced(t) == iterating[t] # <<>> /\ subscribers_ # iterating[t]

\* the subscribers the loop of thread t can call, in order: the ones between
\* begin() and end(), or whatever the moved or freed storage holds
Visited(t) ==
  IF LoopRaced(t) THEN [1..Len(iterating[t]) -> Subscribers] ELSE {iterating[t]}

\* the body of the loop runs for every subscriber: the callbacks are made
LoopEnd(t) ==
  /\ Running
  /\ pc[t] \in {"will_loop", "change_loop", "did_loop"}
  /\ \E visited \in Visited(t) :
       notified' = notified \o
         [i \in 1..Len(visited) |->
            [subscriber |-> visited[i], call |-> EventAt(pc[t], t)]]
  /\ loop_raced' = (loop_raced \/ LoopRaced(t))
  /\ next_diff' = [next_diff EXCEPT ![t] = IF pc[t] = "change_loop" THEN @ + 1 ELSE @]
  /\ iterating' = [iterating EXCEPT ![t] = <<>>]
  /\ pc' = [pc EXCEPT ![t] = AfterLoop(pc[t], t)]
  /\ UNCHANGED <<dvars, fields, terminated, new_collection, diffs, raced, origin,
                 got, got_raced, ocall, nsubmit, reads, spawn_read, spawn_done,
                 last_completed, first_registered, registered_twice, registration_order, last_call>>

\* the loop reads storage that a concurrent push_back or erase freed, and faults
LoopFault(t) ==
  /\ Running
  /\ pc[t] \in {"will_loop", "change_loop", "did_loop"}
  /\ LoopRaced(t)
  /\ terminated' = "crash"
  /\ UNCHANGED <<dvars, fields, pc, locals, got, got_raced, ocall, history>>

\* Publish moving the pending snapshot itself into front_buffer_
PublishBackBuffer(t) ==
  /\ Running
  /\ pc[t] = "publish"
  /\ front_buffer_' = back_buffer_
  /\ got_raced' = (got_raced \/ pc[Owner] = "get_copy")
  /\ next_diff' = [next_diff EXCEPT ![t] = 1]
  /\ pc' = [pc EXCEPT ![t] = IF Len(diffs[t]) # 0 THEN "change" ELSE "clear_computing"]
  /\ UNCHANGED <<dvars, back_buffer_, subscribers_, buffer_lock_, compare_fnc_,
                 sort_fnc, is_asynchronous_, is_computing_changes_,
                 should_recompute_changes_, terminated, new_collection, diffs,
                 iterating, raced, origin, got, ocall, history>>

\* front_buffer_ = unique_ptr(new_collection): the published vector is
\* replaced and the one it held is freed
Publish(t) ==
  /\ Running
  /\ pc[t] = "publish"
  /\ front_buffer_' = new_collection[t]
  /\ got_raced' = (got_raced \/ pc[Owner] = "get_copy")
  /\ next_diff' = [next_diff EXCEPT ![t] = 1]
  /\ pc' = [pc EXCEPT ![t] = IF Len(diffs[t]) # 0 THEN "change" ELSE "clear_computing"]
  /\ UNCHANGED <<dvars, back_buffer_, subscribers_, buffer_lock_, compare_fnc_,
                 sort_fnc, is_asynchronous_, is_computing_changes_,
                 should_recompute_changes_, terminated, new_collection, diffs,
                 iterating, raced, origin, got, ocall, history>>

\* is_computing_changes_ = false;
ClearComputing(t) ==
  /\ Running
  /\ pc[t] = "clear_computing"
  /\ is_computing_changes_' = FALSE
  /\ pc' = [pc EXCEPT ![t] = "unlock"]
  /\ UNCHANGED <<dvars, back_buffer_, front_buffer_, subscribers_, buffer_lock_,
                 compare_fnc_, sort_fnc, is_asynchronous_,
                 should_recompute_changes_, terminated, locals, got, got_raced,
                 ocall, history>>

\* buffer_lock_.unlock(): this recompute is complete
Unlock(t) ==
  /\ Running
  /\ pc[t] = "unlock"
  /\ buffer_lock_' = NoThread
  /\ last_completed' = new_collection[t]
  /\ spawn_done' = IF origin[t] > 0
                   THEN [spawn_done EXCEPT ![origin[t]] = nsubmit]
                   ELSE spawn_done
  /\ origin' = [origin EXCEPT ![t] = 0]
  /\ pc' = [pc EXCEPT ![t] = "recheck"]
  /\ UNCHANGED <<dvars, back_buffer_, front_buffer_, subscribers_, compare_fnc_,
                 sort_fnc, is_asynchronous_, is_computing_changes_,
                 should_recompute_changes_, terminated, new_collection, diffs,
                 next_diff, iterating, raced, got, got_raced, ocall, nsubmit,
                 reads, spawn_read, notified, loop_raced, first_registered,
                 registered_twice, registration_order, last_call>>

\* if (should_recompute_changes_) computeChanges(); and otherwise the return:
\* to setCollection's caller on the owner thread, or the end of the worker
Recheck(t) ==
  /\ Running
  /\ pc[t] = "recheck"
  /\ pc' = [pc EXCEPT ![t] = IF should_recompute_changes_ THEN "lock"
                             ELSE IF t = Owner THEN "idle" ELSE "none"]
  /\ new_collection' = [new_collection EXCEPT ![t] = <<>>]
  /\ diffs' = [diffs EXCEPT ![t] = <<>>]
  /\ next_diff' = [next_diff EXCEPT ![t] = 0]
  /\ UNCHANGED <<dvars, fields, terminated, iterating, raced, origin, got,
                 got_raced, ocall, history>>

(***************************************************************************)
(* The other public operations.                                            *)
(***************************************************************************)
\* getCollection() on the owner thread: front_buffer_ is dereferenced, the
\* copy that follows reads the vector that front_buffer_ points to now
GetCollectionBegin ==
  /\ CanCall(Owner)
  /\ got' = front_buffer_
  /\ got_raced' = FALSE
  /\ pc' = [pc EXCEPT ![Owner] = "get_copy"]
  /\ UNCHANGED <<dvars, fields, terminated, locals, ocall, history>>

\* std::vector<T> result(front_buffer_); return result;
GetCollectionReturn ==
  /\ Running
  /\ pc[Owner] = "get_copy"
  /\ got' \in CopiedValues(got, got_raced)
  /\ got_raced' = FALSE
  /\ pc' = [pc EXCEPT ![Owner] = "idle"]
  /\ UNCHANGED <<dvars, fields, terminated, locals, ocall, history>>

\* the copy of a vector freed meanwhile faults
GetCollectionFault ==
  /\ Running
  /\ pc[Owner] = "get_copy"
  /\ got_raced
  /\ terminated' = "crash"
  /\ UNCHANGED <<dvars, fields, pc, locals, got, got_raced, ocall, history>>

\* s occurs in the sequence v
Contains(v, s) == \E i \in 1..Len(v) : v[i] = s

\* RegisterSubscriber pushing without the std::find test
RegisterSubscriberNoFind(caller, subscriber) ==
  /\ CanCall(caller)
  /\ subscribers_' = Append(subscribers_, subscriber)
  /\ registered_twice' = IF Contains(subscribers_, subscriber)
                         THEN registered_twice \cup {subscriber}
                         ELSE registered_twice
  /\ first_registered' = IF Contains(first_registered, subscriber)
                         THEN first_registered
                         ELSE Append(first_registered, subscriber)
  /\ registration_order' =
       IF Contains(subscribers_, subscriber) THEN registration_order
       ELSE Append(SelectSeq(registration_order, LAMBDA e : e # subscriber),
                   subscriber)
  /\ ocall' = Called(caller, "registerSubscriber")
  /\ UNCHANGED <<dvars, back_buffer_, front_buffer_, buffer_lock_, compare_fnc_,
                 sort_fnc, is_asynchronous_, is_computing_changes_,
                 should_recompute_changes_, terminated, pc, locals, got,
                 got_raced, nsubmit, reads, spawn_read, spawn_done,
                 last_completed, notified, loop_raced, last_call>>

\* registerSubscriber(subscriber), under subscribers_lock_: push_back unless
\* std::find finds the subscriber
RegisterSubscriber(caller, subscriber) ==
  /\ CanCall(caller)
  /\ subscribers_' = IF Contains(subscribers_, subscriber)
                     THEN subscribers_
                     ELSE Append(subscribers_, subscriber)
  /\ registered_twice' = IF Contains(subscribers_, subscriber)
                         THEN registered_twice \cup {subscriber}
                         ELSE registered_twice
  /\ first_registered' = IF Contains(first_registered, subscriber)
                         THEN first_registered
                         ELSE Append(first_registered, subscriber)
  /\ registration_order' =
       IF Contains(subscribers_, subscriber) THEN registration_order
       ELSE Append(SelectSeq(registration_order, LAMBDA e : e # subscriber),
                   subscriber)
  /\ ocall' = Called(caller, "registerSubscriber")
  /\ UNCHANGED <<dvars, back_buffer_, front_buffer_, buffer_lock_, compare_fnc_,
                 sort_fnc, is_asynchronous_, is_computing_changes_,
                 should_recompute_changes_, terminated, pc, locals, got,
                 got_raced, nsubmit, reads, spawn_read, spawn_done,
                 last_completed, notified, loop_raced, last_call>>

\* EraseRemove without the erase: std::remove alone shifts the kept elements
\* to the front and leaves the tail of the vector as it was
EraseRemoveNoErase(v, s) ==
  LET kept == SelectSeq(v, LAMBDA e : e # s)
  IN  kept \o SubSeq(v, Len(kept) + 1, Len(v))

\* v without the elements equal to s: v.erase(std::remove(begin, end, s), end)
EraseRemove(v, s) == SelectSeq(v, LAMBDA e : e # s)

\* unregisterSubscriber(subscriber), under subscribers_lock_: the erase-remove
\* of the subscriber when std::find finds it (the statement as it is meant:
\* as written, v copies the unique_ptr and v.erase is not a member of it)
UnregisterSubscriber(caller, subscriber) ==
  /\ CanCall(caller)
  /\ subscribers_' = IF Contains(subscribers_, subscriber)
                     THEN EraseRemove(subscribers_, subscriber)
                     ELSE subscribers_
  /\ ocall' = Called(caller, "unregisterSubscriber")
  /\ last_call' = IF caller = Owner
                  THEN [name |-> "unregisterSubscriber", arg |-> subscriber,
                        before |-> subscribers_]
                  ELSE last_call
  /\ UNCHANGED <<dvars, back_buffer_, front_buffer_, buffer_lock_, compare_fnc_,
                 sort_fnc, is_asynchronous_, is_computing_changes_,
                 should_recompute_changes_, terminated, pc, locals, got,
                 got_raced, nsubmit, reads, spawn_read, spawn_done,
                 last_completed, notified, loop_raced, first_registered,
                 registered_twice, registration_order>>

\* setAsynchronous(asynchronous): is_asynchronous_ = asynchronous;
SetAsynchronous(caller, asynchronous) ==
  /\ CanCall(caller)
  /\ is_asynchronous_' = asynchronous
  /\ ocall' = Called(caller, "setAsynchronous")
  /\ UNCHANGED <<dvars, back_buffer_, front_buffer_, subscribers_, buffer_lock_,
                 compare_fnc_, sort_fnc, is_computing_changes_,
                 should_recompute_changes_, terminated, pc, locals, got,
                 got_raced, history>>

\* setCompareFunction(compare): compare_fnc_ = compare;
SetCompareFunction(caller, compare) ==
  /\ CanCall(caller)
  /\ compare_fnc_' = compare
  /\ ocall' = Called(caller, "setCompareFunction")
  /\ UNCHANGED <<dvars, back_buffer_, front_buffer_, subscribers_, buffer_lock_,
                 sort_fnc, is_asynchronous_, is_computing_changes_,
                 should_recompute_changes_, terminated, pc, locals, got,
                 got_raced, history>>

\* setSortFunction(sort): sort_fnc = sort;
SetSortFunction(caller, sort) ==
  /\ CanCall(caller)
  /\ sort_fnc' = sort
  /\ ocall' = Called(caller, "setSortFunction")
  /\ UNCHANGED <<dvars, back_buffer_, front_buffer_, subscribers_, buffer_lock_,
                 compare_fnc_, is_asynchronous_, is_computing_changes_,
                 should_recompute_changes_, terminated, pc, locals, got,
                 got_raced, history>>

\* a callback of the loop thread t runs is under way: t is in the body of a
\* range-for over a list that is not empty
InCallback(t) ==
  pc[t] \in {"will_loop", "change_loop", "did_loop"} /\ iterating[t] # <<>>

\* setCollection(collection) called by a subscriber from its callback, in
\* synchronous mode, where the callback runs on the owner thread: the
\* assertion passes, back_buffer_ is replaced and refresh() is next; the
\* frame of computeChanges below the callback keeps buffer_lock_
CallbackSetCollection(collection) ==
  /\ Running
  /\ ~is_asynchronous_
  /\ InCallback(Owner)
  /\ back_buffer_' = collection
  /\ raced' = [t \in Threads |-> raced[t] \/ pc[t] = "copy"]
  /\ nsubmit' = nsubmit + 1
  /\ pc' = [pc EXCEPT ![Owner] = "refresh"]
  /\ last_call' = [name |-> "setCollection", arg |-> collection, before |-> <<>>]
  /\ UNCHANGED <<dvars, front_buffer_, subscribers_, buffer_lock_, compare_fnc_,
                 sort_fnc, is_asynchronous_, is_computing_changes_,
                 should_recompute_changes_, terminated, ocall, new_collection,
                 diffs, next_diff, iterating, origin, got, got_raced, reads,
                 spawn_read, spawn_done, last_completed, notified, loop_raced,
                 first_registered, registered_twice, registration_order>>

\* buffer_lock_.lock() by the thread that owns the mutex: std::mutex is not
\* recursive, the call never returns (Lock(t) stays disabled) or it fails
RelockFault(t) ==
  /\ Running
  /\ pc[t] = "lock"
  /\ buffer_lock_ = t
  /\ terminated' = "crash"
  /\ UNCHANGED <<dvars, fields, pc, locals, got, got_raced, ocall, history>>

(***************************************************************************)
(* The specifications of the Buffer.                                       *)
(***************************************************************************)
\* a step of computeChanges on thread t
ComputeChanges(t) ==
  \/ Lock(t)
  \/ SetComputing(t)
  \/ ClearRequest(t)
  \/ ReadBackBuffer(t)
  \/ CopyAndDiff(t)
  \/ LoopBegin(t)
  \/ LoopEnd(t)
  \/ Publish(t)
  \/ ClearComputing(t)
  \/ Unlock(t)
  \/ Recheck(t)

\* a call is counted when a thread other than the owner makes it
Counted(caller) ==
  /\ caller # Owner => ocalls < MaxOtherCalls
  /\ ocalls' = IF caller = Owner THEN ocalls ELSE ocalls + 1

\* the configuration is set before the first collection
Configure ==
  /\ nsubmit = 0
  /\ \/ \E asynchronous \in BOOLEAN : SetAsynchronous(Owner, asynchronous)
     \/ \E sort \in SortFns : SetSortFunction(Owner, sort)
  /\ UNCHANGED ocalls

\* Spec: the owner thread configures the buffer, then submits collections;
\* its recomputes run inline or on workers
Submit ==
  /\ nsubmit < MaxSubmits
  /\ \E collection \in Collections : SetCollection(Owner, collection)
  /\ UNCHANGED ocalls

Next ==
  \/ Configure
  \/ Submit
  \/ (Refresh \/ RequestRecompute) /\ UNCHANGED ocalls
  \/ \E t \in Threads : (ComputeChanges(t) \/ CopyFault(t)) /\ UNCHANGED ocalls

Spec == Init /\ [][Next]_vars

\* SpecReader: as Spec, and the owner thread reads the published snapshot
SubmitReader ==
  /\ nsubmit < MaxReaderSubmits
  /\ \E collection \in Collections : SetCollection(Owner, collection)
  /\ UNCHANGED ocalls

GetCollection ==
  /\ GetCollectionBegin \/ GetCollectionReturn \/ GetCollectionFault
  /\ UNCHANGED ocalls

NextReader ==
  \/ Configure
  \/ SubmitReader
  \/ GetCollection
  \/ (Refresh \/ RequestRecompute) /\ UNCHANGED ocalls
  \/ \E t \in Threads : (ComputeChanges(t) \/ CopyFault(t)) /\ UNCHANGED ocalls

SpecReader == Init /\ [][NextReader]_vars

\* SpecThreads: as Spec, and a second thread calls the buffer
SubmitThreads ==
  /\ nsubmit < MaxThreadsSubmits
  /\ \E collection \in Collections : SetCollection(Owner, collection)
  /\ UNCHANGED ocalls

OtherCall ==
  /\ Counted(Other)
  /\ \/ \E collection \in Collections : SetCollection(Other, collection)
     \/ \E asynchronous \in BOOLEAN : SetAsynchronous(Other, asynchronous)
     \/ \E compare \in CompareFns : SetCompareFunction(Other, compare)
     \/ \E sort \in SortFns : SetSortFunction(Other, sort)

NextThreads ==
  \/ Configure
  \/ SubmitThreads
  \/ OtherCall
  \/ (Refresh \/ RequestRecompute) /\ UNCHANGED ocalls
  \/ \E t \in Threads : (ComputeChanges(t) \/ CopyFault(t)) /\ UNCHANGED ocalls

SpecThreads == Init /\ [][NextThreads]_vars

\* SpecNotify: the owner thread registers subscribers, sets the delegates
\* and submits collections in synchronous mode
SubmitNotify ==
  /\ nsubmit < MaxNotifySubmits
  /\ \E collection \in NotifyCollections : SetCollection(Owner, collection)
  /\ UNCHANGED ocalls

OwnerCall ==
  /\ \/ \E subscriber \in Subscribers : RegisterSubscriber(Owner, subscriber)
     \/ \E subscriber \in Subscribers : UnregisterSubscriber(Owner, subscriber)
     \/ \E compare \in CompareFns : SetCompareFunction(Owner, compare)
     \/ \E sort \in SortFns : SetSortFunction(Owner, sort)
  /\ UNCHANGED ocalls

NextNotify ==
  \/ SubmitNotify
  \/ OwnerCall
  \/ Refresh /\ UNCHANGED ocalls
  \/ ComputeChanges(Owner) /\ UNCHANGED ocalls

SpecNotify == Init /\ [][NextNotify]_vars

\* SpecConcurrent: synchronous mode; the owner thread registers subscribers
\* and submits collections, and a second thread registers a subscriber at
\* any time, also while computeChanges runs
SubmitConcurrent ==
  /\ nsubmit < MaxConcurrentSubmits
  /\ \E collection \in NotifyCollections : SetCollection(Owner, collection)
  /\ UNCHANGED ocalls

OwnerRegister ==
  /\ \E subscriber \in Subscribers : RegisterSubscriber(Owner, subscriber)
  /\ UNCHANGED ocalls

OtherRegister ==
  /\ Counted(Other)
  /\ \E subscriber \in Subscribers : RegisterSubscriber(Other, subscriber)

NextConcurrent ==
  \/ SubmitConcurrent
  \/ OwnerRegister
  \/ OtherRegister
  \/ Refresh /\ UNCHANGED ocalls
  \/ ComputeChanges(Owner) /\ UNCHANGED ocalls
  \/ LoopFault(Owner) /\ UNCHANGED ocalls

SpecConcurrent == Init /\ [][NextConcurrent]_vars

\* SpecReentrant: synchronous mode; the owner thread registers subscribers
\* and submits collections, and a subscriber may call setCollection from a
\* callback
SubmitReentrant ==
  /\ nsubmit < MaxReentrantSubmits
  /\ \E collection \in NotifyCollections : SetCollection(Owner, collection)
  /\ UNCHANGED ocalls

CallbackSubmit ==
  /\ nsubmit < MaxReentrantSubmits
  /\ \E collection \in NotifyCollections : CallbackSetCollection(collection)
  /\ UNCHANGED ocalls

NextReentrant ==
  \/ SubmitReentrant
  \/ CallbackSubmit
  \/ OwnerRegister
  \/ Refresh /\ UNCHANGED ocalls
  \/ ComputeChanges(Owner) /\ UNCHANGED ocalls
  \/ RelockFault(Owner) /\ UNCHANGED ocalls

SpecReentrant == Init /\ [][NextReentrant]_vars

\* SpecRegistry: the owner thread registers and unregisters subscribers
RegistrySubscribers == {"s1", "s2", "s3"}

NextRegistry ==
  \/ \E subscriber \in RegistrySubscribers :
       RegisterSubscriber(Owner, subscriber) /\ UNCHANGED ocalls
  \/ \E subscriber \in RegistrySubscribers :
       UnregisterSubscriber(Owner, subscriber) /\ UNCHANGED ocalls

SpecRegistry == Init /\ [][NextRegistry]_vars

(***************************************************************************)
(* Properties of the diff engine.                                          *)
(***************************************************************************)
RECURSIVE Reverse(_)
Reverse(s) == IF s = <<>> THEN <<>> ELSE Append(Reverse(Tail(s)), Head(s))

RECURSIVE Concat(_, _, _)
\* f[from] \o f[from+1] \o ... \o f[to]
Concat(f, from, to) ==
  IF from > to THEN <<>> ELSE f[from] \o Concat(f, from + 1, to)

RECURSIVE InsertedBefore(_, _)
\* the values of the Insert operations of ops (in the order of ops) at index i
InsertedBefore(ops, i) ==
  IF ops = <<>> THEN <<>>
  ELSE LET rest == InsertedBefore(Tail(ops), i)
       IN  IF Head(ops).type = "INSERT" /\ Head(ops).index = i
           THEN <<Head(ops).value>> \o rest ELSE rest

RECURSIVE ElementAfter(_, _, _)
\* what original element i (held in cell) has become after ops, applied in order
ElementAfter(ops, i, cell) ==
  IF ops = <<>> THEN cell
  ELSE IF Head(ops).index = i /\ Head(ops).type = "DELETE"
       THEN ElementAfter(Tail(ops), i, <<>>)
  ELSE IF Head(ops).index = i /\ Head(ops).type = "SUBSTITUTE"
       THEN ElementAfter(Tail(ops), i, <<Head(ops).value>>)
  ELSE ElementAfter(Tail(ops), i, cell)

\* x after the operations of list, applied in reverse of emission order, every
\* index read as a (0-based) position of the original x
ApplyEdits(x, list) ==
  LET ops == Reverse(list)
      piece == [i \in 0..Len(x) |->
                  InsertedBefore(ops, i) \o
                  (IF i < Len(x) THEN ElementAfter(ops, i, <<x[i+1]>>) ELSE <<>>)]
  IN  Concat(piece, 0, Len(x))

RECURSIVE LevRow(_, _, _, _, _)
\* one row of the classic edit-distance recurrence: row is the previous row
\* (distances from a prefix of x to every prefix of y), a the next element of x
LevRow(row, a, y, compare, acc) ==
  LET j == Len(acc)
  IN  IF j > Len(y) THEN acc
      ELSE IF j = 0 THEN LevRow(row, a, y, compare, <<row[1] + 1>>)
      ELSE LevRow(row, a, y, compare,
             Append(acc, Min(Min(row[j+1] + 1, acc[j] + 1),
                             row[j] + (IF Equal(compare, a, y[j]) THEN 0 ELSE 1))))

RECURSIVE LevRows(_, _, _, _, _)
LevRows(row, x, y, compare, i) ==
  IF i > Len(x) THEN row
  ELSE LevRows(LevRow(row, x[i], y, compare, <<>>), x, y, compare, i + 1)

\* the classic Levenshtein edit distance between x and y
Levenshtein(x, y, compare) ==
  LevRows([j \in 1..(Len(y) + 1) |-> j - 1], x, y, compare, 1)[Len(y) + 1]

\* C1: with default equality, applying the operations returned by diff(x, y)
\* to x in reverse of emission order, indices read as positions of the
\* original x, yields exactly y.
C1_RoundTrip ==
  (dpc = "returned" /\ dcompare = "null") => ApplyEdits(dx, dlist) = dy

\* C2: the number of operations of diff(x, y) is the classic edit distance
\* between x and y, which is table[|x|][|y|]; for the demo pair it is 3
\* operations: a Delete of 5 and two operations carrying 6.
C2_Minimal ==
  dpc = "returned" =>
    /\ Len(dlist) = Levenshtein(dx, dy, dcompare)
    /\ Len(dlist) = CostTable(dx, dy, dcompare)[Len(dx)][Len(dy)]
    /\ (dx = DemoOld /\ dy = DemoNew /\ dcompare = "null") =>
         /\ Len(dlist) = 3
         /\ Cardinality({k \in 1..Len(dlist) :
                dlist[k].type = "DELETE" /\ dlist[k].value = 5}) = 1
         /\ Cardinality({k \in 1..Len(dlist) :
                dlist[k].type # "DELETE" /\ dlist[k].value = 6}) = 2

C2_Witness ==
  /\ dpc = "returned" /\ dcompare = "null"
  /\ dx = DemoOld /\ dy = DemoNew
  /\ Len(dlist) = 3

\* C3: diff(x, x) is the empty list, for every x.
C3_SelfDiffEmpty ==
  (dpc = "returned" /\ dx = dy) => dlist = <<>>

C3_Witness ==
  dpc = "returned" /\ dx = <<1, 1, 2>> /\ dy = dx /\ dlist = <<>>

\* C18: in diff(x, y) the indices are non-increasing in emission order; a
\* Delete or Substitute has index < |x| and an Insert index <= |x|; a
\* Delete's value is x[index]; an Insert's or Substitute's value is an
\* element of y; no position of x is the target of two Delete/Substitute.
C18_EditListShape ==
  dpc = "returned" =>
    /\ \A k \in 1..(Len(dlist) - 1) : dlist[k].index >= dlist[k + 1].index
    /\ \A k \in 1..Len(dlist) :
         LET op == dlist[k]
         IN  /\ op.index >= 0
             /\ op.type \in {"DELETE", "SUBSTITUTE"} => op.index < Len(dx)
             /\ op.type = "INSERT" => op.index <= Len(dx)
             /\ op.type = "DELETE" => op.value = dx[op.index + 1]
             /\ op.type \in {"INSERT", "SUBSTITUTE"} =>
                  \E j \in 1..Len(dy) : op.value = dy[j]
    /\ \A k, h \in 1..Len(dlist) :
         (k # h /\ dlist[k].type # "INSERT" /\ dlist[h].type # "INSERT") =>
           dlist[k].index # dlist[h].index

C18_Witness ==
  /\ dpc = "returned"
  /\ dx = <<1, 2, 1>> /\ dy = <<2, 1, 1>>
  /\ dlist = <<[type |-> "INSERT", index |-> 3, value |-> 1],
               [type |-> "DELETE", index |-> 0, value |-> 1]>>

(***************************************************************************)
(* Properties of the Buffer.                                               *)
(***************************************************************************)
\* the positions of computeChanges between lock() and unlock()
Locked ==
  {"set_computing", "clear_request", "read", "copy", "will", "will_loop",
   "publish", "change", "change_loop", "did", "did_loop", "clear_computing",
   "unlock"}

\* the positions after front_buffer_ is replaced, up to unlock()
Published ==
  {"change", "change_loop", "did", "did_loop", "clear_computing", "unlock"}

\* no call and no recompute is under way
Quiescent == pc[Owner] = "idle" /\ \A w \in Workers : pc[w] = "none"

\* C4: when setCollection(A) starts a worker whose recompute diffs A, and
\* N >= 1 further calls are made before that recompute completes, then no
\* collection of those calls but the last is ever diffed, at most one further
\* recompute diffs the last one, and exactly one has once all is at rest.
C4_Coalescing ==
  \A a \in 1..MaxSubmits :
    (spawn_read[a] = a /\ spawn_done[a] > a) =>
      /\ \A k \in (a + 1)..(spawn_done[a] - 1) : reads[k] = 0
      /\ reads[spawn_done[a]] <= 1
      /\ (Quiescent /\ nsubmit = spawn_done[a]) => reads[spawn_done[a]] = 1

\* C5: at most one thread is between buffer_lock_.lock() and
\* buffer_lock_.unlock() of computeChanges, and that thread holds the mutex.
C5_MutualExclusion ==
  /\ Cardinality({t \in Threads : pc[t] \in Locked}) <= 1
  /\ \A t \in Threads : pc[t] \in Locked <=> buffer_lock_ = t

C5_Witness ==
  \E t, u \in Threads :
    /\ t # u
    /\ pc[t] \in {"will_loop", "change_loop", "did_loop"}
    /\ pc[u] = "lock"

C7_ConfiguredPredicate ==
  \A t \in Threads :
    pc[t] \in {"will", "will_loop", "publish"} =>
      diffs[t] = diff(front_buffer_, new_collection[t], compare_fnc_)

\* the members of the state a call of setCollection can change
Submitted ==
  <<back_buffer_, front_buffer_, is_computing_changes_,
    should_recompute_changes_, buffer_lock_, pc, nsubmit, raced>>

\* C8: setCollection called off the owner thread fails its assertion before
\* any effect: both snapshots and both flags are unchanged, no recompute runs
\* and no worker is started.
C8_OffOwnerSubmitAsserts ==
  [][(ocalls' = ocalls + 1 /\ ocall' = "setCollection") =>
       (terminated' = "assert" /\ UNCHANGED Submitted)]_vars

C8_Witness ==
  /\ terminated = "assert"
  /\ ocall = "setCollection"
  /\ back_buffer_ # <<>>
  /\ \E w \in Workers : pc[w] = "copy"

\* C9: a configuration setter called off the owner thread fails an
\* assertion and leaves the configuration unchanged.
C9_OffOwnerSetterAsserts ==
  [][(ocalls' = ocalls + 1 /\
      ocall' \in {"setAsynchronous", "setCompareFunction", "setSortFunction"}) =>
       (terminated' = "assert" /\
        UNCHANGED <<is_asynchronous_, compare_fnc_, sort_fnc>>)]_vars

\* no element of v occurs twice
NoDuplicates(v) == \A i, j \in 1..Len(v) : v[i] = v[j] => i = j

\* the elements of order that occur in v, in the order of order
Restricted(order, v) == SelectSeq(order, LAMBDA e : Contains(v, e))

\* the callbacks named event that subscriber s received in the recompute
Received(s, event) ==
  Cardinality({i \in 1..Len(notified) :
                 notified[i].subscriber = s /\ notified[i].call.event = event})

\* every subscriber on the list received each notification of the recompute
\* of thread t once, and no other subscriber received any
NotifiedOnce(t) ==
  \A s \in Subscribers :
    LET on == Contains(subscribers_, s)
        changed == Len(diffs[t]) # 0
    IN  /\ Received(s, "onBufferWillChange") = IF on /\ changed THEN 1 ELSE 0
        /\ Received(s, "onBufferChange") = IF on THEN Len(diffs[t]) ELSE 0
        /\ Received(s, "onBufferDidChange") = IF on /\ changed THEN 1 ELSE 0

RemoveOne(v, s) ==
  LET i == CHOOSE k \in 1..Len(v) : v[k] = s /\ \A h \in 1..(k - 1) : v[h] # s
  IN  SubSeq(v, 1, i - 1) \o SubSeq(v, i + 1, Len(v))

\* everything of the buffer but the subscriber list
AllButSubscribers ==
  <<back_buffer_, front_buffer_, buffer_lock_, compare_fnc_, sort_fnc,
    is_asynchronous_, is_computing_changes_, should_recompute_changes_,
    terminated, pc, locals, got, got_raced>>

IsSortOf(v, c) ==
  /\ Len(v) = Len(c)
  /\ \A i \in 1..(Len(v) - 1) : v[i] <= v[i + 1]
  /\ \A e \in {c[i] : i \in 1..Len(c)} \cup {v[i] : i \in 1..Len(v)} :
       Cardinality({i \in 1..Len(v) : v[i] = e}) =
       Cardinality({i \in 1..Len(c) : c[i] = e})

\* v is the candidate the recompute of collection c makes: c sorted when a
\* sort function is set, c itself when none is
IsCandidateOf(v, c) == IF sort_fnc # "null" THEN IsSortOf(v, c) ELSE v = c

\* C12: in synchronous mode with no worker in flight, the recompute that
\* setCollection(c) runs on the caller's thread diffs the previous published
\* snapshot against the candidate sort_fnc(c), and when it returns the
\* published snapshot is that candidate, every notification of that diff has
\* been delivered, is_computing_changes_ is false and the pending snapshot
\* holds c untransformed.
C12_SynchronousPostcondition ==
  (~is_asynchronous_ /\ \A w \in Workers : pc[w] = "none") =>
    /\ pc[Owner] \in {"will", "will_loop", "publish"} =>
         /\ IsCandidateOf(new_collection[Owner], last_call.arg)
         /\ diffs[Owner] = diff(front_buffer_, new_collection[Owner], "null")
    /\ pc[Owner] = "recheck" =>
         /\ last_call.name = "setCollection"
         /\ IsCandidateOf(front_buffer_, last_call.arg)
         /\ front_buffer_ = new_collection[Owner]
         /\ back_buffer_ = last_call.arg
         /\ ~is_computing_changes_
         /\ ~should_recompute_changes_
         /\ buffer_lock_ = NoThread
         /\ NotifiedOnce(Owner)

C12_Witness ==
  /\ pc[Owner] = "recheck"
  /\ ~is_asynchronous_
  /\ sort_fnc = "ascending"
  /\ last_call.arg = <<2, 1>>
  /\ front_buffer_ = <<1, 2>>
  /\ back_buffer_ = <<2, 1>>
  /\ Len(subscribers_) = 2
  /\ Len(notified) = 2 * (Len(diffs[Owner]) + 2)
  /\ Len(diffs[Owner]) > 0

\* thread w is started by this step
Spawned(w) == pc[w] = "none" /\ pc'[w] = "lock"

\* C13: in asynchronous mode setCollection starts a worker only when no
\* worker started earlier is still running its computeChanges; when one is,
\* the call sets should_recompute_changes_ and starts none.
C13_SpawnOnlyWhenNoneInFlight ==
  [][/\ \A w \in Workers :
          Spawned(w) => \A u \in Workers : pc[u] = "none"
     /\ (pc[Owner] = "refresh" /\ pc'[Owner] # "refresh" /\ is_asynchronous_
           /\ \E u \in Workers : pc[u] # "none") =>
          /\ pc'[Owner] = "request"
          /\ \A w \in Workers : ~Spawned(w)]_vars

\* one callback made on every subscriber of the list, in the order of the list
ToAll(call) ==
  [i \in 1..Len(subscribers_) |-> [subscriber |-> subscribers_[i], call |-> call]]

RECURSIVE ChangesUpTo(_, _)
\* the onBufferChange callbacks of the first k operations of list
ChangesUpTo(list, k) ==
  IF k = 0 THEN <<>>
  ELSE ChangesUpTo(list, k - 1) \o
       ToAll([event |-> "onBufferChange", diff |-> list[k]])

\* the callbacks a recompute with edit list list has made once it has
\* delivered k of its operations, and its did-change event if did
Delivered(list, k, did) ==
  IF Len(list) = 0 THEN <<>>
  ELSE ToAll([event |-> "onBufferWillChange"]) \o ChangesUpTo(list, k) \o
       (IF did THEN ToAll([event |-> "onBufferDidChange"]) ELSE <<>>)

\* C14: a recompute with a non-empty edit list calls onBufferWillChange once
\* on every subscriber before it replaces the published snapshot, then, after
\* the replacement, onBufferChange once per operation in emission order on
\* every subscriber in registration order, then onBufferDidChange once on
\* every subscriber; with an empty edit list it makes no callback.
C14_NotificationSequence ==
  \A t \in Threads :
    /\ pc[t] \in {"will", "will_loop"} => notified = <<>>
    /\ pc[t] = "publish" =>
         /\ notified = Delivered(diffs[t], 0, FALSE)
         /\ front_buffer_ = last_completed
    /\ pc[t] \in {"change", "change_loop"} =>
         /\ notified = Delivered(diffs[t], next_diff[t] - 1, FALSE)
         /\ front_buffer_ = new_collection[t]
    /\ pc[t] \in {"did", "did_loop"} =>
         notified = Delivered(diffs[t], Len(diffs[t]), FALSE)
    /\ pc[t] \in {"clear_computing", "unlock"} =>
         notified = Delivered(diffs[t], Len(diffs[t]), TRUE)

C14_Witness ==
  /\ pc[Owner] = "clear_computing"
  /\ Len(diffs[Owner]) = 2
  /\ subscribers_ = <<"s2", "s1">>
  /\ Len(notified) = 8
  /\ notified[1].call.event = "onBufferWillChange"
  /\ notified[8].call.event = "onBufferDidChange"

\* C15: in asynchronous mode, whenever the owner thread is between calls and
\* every worker has finished, the published snapshot is the (transformed)
\* collection of the last setCollection call: no submitted collection is lost.
C15_NoLostUpdate ==
  (is_asynchronous_ /\ Quiescent /\ nsubmit > 0 /\ Running) =>
    IsCandidateOf(front_buffer_, back_buffer_)

\* C16: in asynchronous mode the owner thread's replacement of back_buffer_
\* is not ordered with a worker's read of it by any lock: while a worker
\* holds buffer_lock_ and copies back_buffer_, setCollection can run (it
\* takes no lock), and there is a reachable state where it has.
C16_PendingWriteUnordered ==
  \A w \in Workers :
    (is_asynchronous_ /\ pc[w] = "copy" /\ pc[Owner] = "idle" /\ Running
       /\ nsubmit < MaxSubmits) =>
      /\ buffer_lock_ = w
      /\ ENABLED Submit

C16_Witness ==
  \E w \in Workers :
    /\ is_asynchronous_
    /\ pc[w] = "copy"
    /\ buffer_lock_ = w
    /\ raced[w]
    /\ back_buffer_ # new_collection[w]

\* every computeChanges has returned, the mutex is free and the flag is clear
AtRest ==
  /\ \A t \in Threads : pc[t] \in {"idle", "none"}
  /\ buffer_lock_ = NoThread
  /\ ~is_computing_changes_

\* C17: with a finite number of submits every started computeChanges
\* returns, after which buffer_lock_ is free and is_computing_changes_ is
\* false: the run comes to a stop only when all of them have returned.
C17_Quiescence == ~(ENABLED Next) => AtRest

\* C19: in every recompute, also when registerSubscriber is called from
\* another thread while computeChanges runs, a subscriber receives
\* onBufferChange or onBufferDidChange only if it received that recompute's
\* onBufferWillChange.
C19_BracketPairing ==
  \A s \in Subscribers :
    (Received(s, "onBufferChange") > 0 \/ Received(s, "onBufferDidChange") > 0)
      => Received(s, "onBufferWillChange") > 0

\* C20: in synchronous mode a setCollection called from a subscriber's
\* callback on the owner thread completes: whenever its computeChanges
\* reaches buffer_lock_.lock() the mutex can be taken, and no call fails.
C20_ReentrantSubmitCompletes ==
  /\ Running
  /\ pc[Owner] = "lock" => buffer_lock_ = NoThread

=============================================================================
